---- MODULE Spec2Model ----
(***************************************************************************)
(* Microsoft Graph Explorer MCP server (src/main.py): the GraphExplorerMCP *)
(* object, its MCP tools and the Graph Explorer page they drive.           *)
(*                                                                         *)
(* One tool call is in flight at a time (pc).  A tool whose handler holds  *)
(* a loop or a selector cascade runs in several steps, one per cascade or  *)
(* loop iteration; pc names the handler's position and only the next step  *)
(* of the call in flight is enabled.  A finished call rests in pc = "done" *)
(* with its outcome in result, until Return hands it to the MCP caller.    *)
(*                                                                         *)
(* The page is the environment: every Playwright call either has its       *)
(* effect or raises, chosen with \E.  wait_for_selector (state visible or  *)
(* attached) returns an element or raises TimeoutError; query_selector     *)
(* returns an element, None, or raises.                                    *)
(***************************************************************************)
EXTENDS Integers, Sequences, FiniteSets, TLC

VARIABLES
    platform,    \* the pathlib flavour of the host: "posix" or "nt"
    self,        \* GraphExplorerMCP fields: playwright, browser, context, page (0 is None)
    net,         \* browser side: runtimes started, connect calls made, pages opened
    headerRows,  \* the request-header rows the page shows, in order: <<key, value>>
    methodText,  \* the text of the HTTP method dropdown button
    editorText,  \* the text the request-body editor shows
    pc,          \* position of the tool call in flight: "idle", a handler label, "done"
    op,          \* the tool of the call in flight (or just finished)
    arg,         \* its argument
    snap,        \* self and net as they were when the call began
    result,      \* its outcome: [status, kind, text, n]
    touched,     \* a page API call was made during this call
    trace,       \* the clicks, key presses and captures of this call, in order
    cascade,     \* the selector cascade this call has just run
    loc,         \* the handler's local variables
    ensured,     \* what ensure_browser came to in this call ("none": not called)
    lastBody,    \* history: the text of the set-request-body call just handed back
    released,    \* history: the release calls that returned, in order: <<call, handle>>
    tasks        \* the tool calls running as concurrent tasks: position and page used

vars == <<platform, self, net, headerRows, methodText, editorText, pc, op, arg, snap,
          result, touched, trace, cascade, loc, ensured, lastBody, released, tasks>>

(***************************************************************************)
(* Bounds.                                                                 *)
(***************************************************************************)
\* Playwright runtimes the environment lets the server start.
MaxStarts == 2
\* Header rows the page holds at most.
MaxRows == 2

(***************************************************************************)
(* Strings are sequences of one-character strings.                         *)
(***************************************************************************)
LowerCase == <<"a","b","c","d","e","f","g","h","i","j","k","l","m",
               "n","o","p","q","r","s","t","u","v","w","x","y","z">>
UpperCase == <<"A","B","C","D","E","F","G","H","I","J","K","L","M",
               "N","O","P","Q","R","S","T","U","V","W","X","Y","Z">>

\* str.upper() on one character
UpperChar(c) ==
    IF \E i \in DOMAIN LowerCase : LowerCase[i] = c
    THEN UpperCase[CHOOSE i \in DOMAIN LowerCase : LowerCase[i] = c]
    ELSE c

\* str.upper()
upper(s) == [i \in 1..Len(s) |-> UpperChar(s[i])]

\* str.startswith(prefix)
startswith(s, prefix) ==
    /\ Len(prefix) <= Len(s)
    /\ SubSeq(s, 1, Len(prefix)) = prefix

\* Playwright's :has-text("t"): the element's text contains t, case-insensitively
HasText(text, t) ==
    \E i \in 1..(Len(text) - Len(t) + 1) :
        upper(SubSeq(text, i, i + Len(t) - 1)) = upper(t)

GET    == <<"G","E","T">>
POST   == <<"P","O","S","T">>
PUT    == <<"P","U","T">>
PATCH  == <<"P","A","T","C","H">>
DELETE == <<"D","E","L","E","T","E">>

\* valid_methods, in the tool and again in the handler
valid_methods == <<GET, POST, PUT, PATCH, DELETE>>

\* x in list
InList(x, list) == \E i \in DOMAIN list : list[i] = x

(***************************************************************************)
(* Outcomes of a call.                                                     *)
(***************************************************************************)
NoResult == [status |-> "none", kind |-> "", text |-> <<>>, n |-> 0]

\* raise ValueError(...) / raise Exception(...): status and what the message says
Raise(status, kind) == [status |-> status, kind |-> kind, text |-> <<>>, n |-> 0]

\* return "Successfully ...": with the text or the count the message carries
Success(text, n) == [status |-> "ok", kind |-> "", text |-> text, n |-> n]

\* A cascade: the candidates evaluated, in order, each <<number, answer>>, and
\* the number of the candidate accepted (0: none)
NoCascade == [target |-> "", tried |-> <<>>, found |-> 0]
\* The concurrent tasks: none has begun, none has used a page.
Tasks == {1, 2}
NoTasks == [t \in Tasks |-> [pc |-> "idle", conn |-> 0, page |-> 0]]
NoLoc == [method |-> <<>>, element |-> <<>>,
          headers |-> <<>>, headers_added |-> 0, attempts |-> <<>>, removes |-> <<>>,
          remove_buttons |-> 0, editors |-> 0, contained |-> 0, chosen |-> 0]

(***************************************************************************)
(* GraphExplorerMCP.__init__ and the session.                              *)
(***************************************************************************)
\* __init__: browser, context, page, playwright are None
NewSelf == [playwright |-> 0, browser |-> 0, context |-> 0, page |-> 0]

Session == [self |-> self, net |-> net]

\* What the environment can answer to one ensure_browser call.
EnsureOutcomes(s, n) ==
    IF s.browser # 0 THEN {"ok"}
    ELSE {"start_failed"} \cup
         (IF n.starts < MaxStarts
          THEN {"ok", "connect_failed", "no_context", "new_page_failed"}
          ELSE {})

\* The body under `if not self.browser:`: start the runtime, connect over CDP,
\* take contexts[0], open a page; each field is assigned as soon as its call returns
Acquire(s, n, o) ==
    IF o = "start_failed" THEN [self |-> s, net |-> n, raised |-> TRUE]
    ELSE
      LET s1 == [s EXCEPT !.playwright = n.starts + 1]
          n1 == [n EXCEPT !.starts = @ + 1, !.connects = @ + 1]
      IN  IF o = "connect_failed" THEN [self |-> s1, net |-> n1, raised |-> TRUE]
          ELSE
            LET s2 == [s1 EXCEPT !.browser = n1.connects]
            IN  IF o = "no_context" THEN [self |-> s2, net |-> n1, raised |-> TRUE]
                ELSE
                  LET s3 == [s2 EXCEPT !.context = n1.connects]
                  IN  IF o = "new_page_failed"
                      THEN [self |-> s3, net |-> n1, raised |-> TRUE]
                      ELSE [self |-> [s3 EXCEPT !.page = n1.pages + 1],
                            net |-> [n1 EXCEPT !.pages = @ + 1],
                            raised |-> FALSE]

\* What an ensure_browser call came to: the browser was held, or the outcome o
\* of acquiring it.
Ensured(s, o) == IF s.browser # 0 THEN "held" ELSE o

\* ensure_browser guarded by the page instead of the browser (if not self.page).
ensure_browser_unless_page(s, n, o) ==
    IF s.page # 0 THEN [self |-> s, net |-> n, raised |-> FALSE]
    ELSE Acquire(s, n, o)

\* ensure_browser guarded by the runtime instead of the browser
\* (if not self.playwright).
ensure_browser_unless_started(s, n, o) ==
    IF s.playwright # 0 THEN [self |-> s, net |-> n, raised |-> FALSE]
    ELSE Acquire(s, n, o)

\* ensure_browser without its guard: every call acquires.
ensure_browser_always(s, n, o) == Acquire(s, n, o)

\* ensure_browser: the fields and the browser side afterwards, and whether it raised
ensure_browser(s, n, o) ==
    IF s.browser # 0 THEN [self |-> s, net |-> n, raised |-> FALSE]
    ELSE Acquire(s, n, o)

(***************************************************************************)
(* Bookkeeping shared by the tools.                                        *)
(***************************************************************************)
\* A tool call arrives while no other is in flight.
Call(name, a) ==
    /\ pc = "idle"
    /\ op' = name
    /\ arg' = a
    /\ snap' = Session

\* The call ends with outcome r.
End(r) ==
    /\ pc' = "done"
    /\ result' = r

\* The call goes on at position label.
Goto(label) ==
    /\ pc' = label
    /\ result' = NoResult

\* The tool returns (or raises) to the MCP caller: the call's locals are gone.
Handback ==
    /\ pc = "done"
    /\ pc' = "idle"
    /\ op' = ""
    /\ arg' = <<>>
    /\ snap' = Session
    /\ result' = NoResult
    /\ touched' = FALSE
    /\ trace' = <<>>
    /\ cascade' = NoCascade
    /\ loc' = NoLoc
    /\ ensured' = "none"
    /\ UNCHANGED <<platform, tasks, released, editorText, self, net, headerRows, methodText>>

Return ==
    /\ Handback
    /\ lastBody' = lastBody

\* The same step, with lastBody keeping the text of the call that ends when it
\* was a set-request-body that reported success (body_str of its argument).
ReturnRemembering ==
    /\ Handback
    /\ lastBody' = IF op = "set_request_body" /\ result.status = "ok"
                   THEN arg.value ELSE "none"

(***************************************************************************)
(* Paths: sequences of components, as pathlib splits them.                 *)
(***************************************************************************)
\* Path(p).is_absolute()
is_absolute(flavour, p) ==
    IF flavour = "posix"
    THEN Len(p) >= 1 /\ p[1] = "/"
    ELSE Len(p) >= 2 /\ p[1] = "C:" /\ p[2] = "\\"

PathInputs ==
    { <<>>,
      <<"shots", "a.png">>,
      <<".", "a.png">>,
      <<"/", "shots", "a.png">>,
      <<"/", "shots", "a.txt">>,
      <<"C:", "\\", "shots", "a.png">>,
      <<"C:", "a.png">> }


\* Path(p).suffix of the names used here
suffix(p) ==
    IF Len(p) = 0 THEN ""
    ELSE CASE p[Len(p)] = "a.png" -> ".png"
           [] p[Len(p)] = "a.PNG" -> ".PNG"
           [] p[Len(p)] = "a.txt" -> ".txt"
           [] OTHER -> ""

\* str.lower() on a suffix
lower_suffix(x) == IF x = ".PNG" THEN ".png" ELSE x

supported_extensions == {".png", ".jpg", ".jpeg", ".gif", ".bmp", ".webp"}

(***************************************************************************)
(* graph_explorer_screenshot                                               *)
(***************************************************************************)
NoneSelector == "None"

ScreenshotPaths ==
    { <<>>,
      <<"shots", "a.png">>,
      <<"/", "shots", "a.png">>,
      <<"C:", "\\", "shots", "a.png">> }

ScreenshotArgs ==
    [save_path : ScreenshotPaths,
     full_page : BOOLEAN,
     element_selector : {NoneSelector, "", "#response-area"}]

\* The first Playwright or file call of the handler that raises, if any.
ScreenshotFailures ==
    {"none", "scroll", "wait_for_selector", "scroll_into_view", "capture", "write"}

\* bool(element_selector)
Truthy(sel) == sel # NoneSelector /\ sel # ""

\* The capture with the full_page flag looked at before the selector.
CaptureFlagFirst(a) ==
    IF a.full_page THEN "capture:full_page"
    ELSE IF Truthy(a.element_selector) THEN "capture:element"
    ELSE "capture:viewport"

\* The capture the handler makes: element.screenshot(type) in the selector
\* branch, page.screenshot(full_page, type) otherwise.
Capture(a) ==
    IF Truthy(a.element_selector) THEN "capture:element"
    ELSE IF a.full_page THEN "capture:full_page"
    ELSE "capture:viewport"

\* _take_screenshot_async, after ensure_browser
_take_screenshot_async(s, a, fail) ==
    LET failed == Raise("Exception", "screenshot_failed")
    IN
    IF s.page = 0
    THEN [result |-> failed, touched |-> FALSE, trace |-> <<>>]
    ELSE IF fail = "scroll"
    THEN [result |-> failed, touched |-> TRUE, trace |-> <<>>]
    ELSE
      LET shot ==
            IF Truthy(a.element_selector)
            THEN IF fail \in {"wait_for_selector", "scroll_into_view", "capture"}
                 THEN [ok |-> FALSE, trace |-> <<>>]
                 ELSE [ok |-> TRUE, trace |-> <<Capture(a)>>]
            ELSE IF fail = "capture"
                 THEN [ok |-> FALSE, trace |-> <<>>]
                 ELSE [ok |-> TRUE, trace |-> <<Capture(a)>>]
      IN  IF ~shot.ok
          THEN [result |-> failed, touched |-> TRUE, trace |-> <<>>]
          ELSE IF fail = "write"
          THEN [result |-> failed, touched |-> TRUE, trace |-> shot.trace]
          ELSE [result |-> Success(<<>>, 0), touched |-> TRUE,
                trace |-> Append(shot.trace, "write")]

\* The tool without its save_path check.
ScreenshotPathAny(flavour, a) == TRUE

\* The save_path check of the tool.
ScreenshotPathOk(flavour, a) == is_absolute(flavour, a.save_path)

graph_explorer_screenshot(a) ==
    /\ Call("screenshot", a)
    /\ cascade' = NoCascade
    /\ loc' = NoLoc
    /\ UNCHANGED <<platform, tasks, released, lastBody, editorText, headerRows, methodText>>
    /\ IF ~ScreenshotPathOk(platform, a)
       THEN /\ End(Raise("ValueError", "save_path_not_absolute"))
            /\ touched' = FALSE
            /\ trace' = <<>>
            /\ UNCHANGED <<self, net, ensured>>
       ELSE \E o \in EnsureOutcomes(self, net) :
              LET eb == ensure_browser(self, net, o)
              IN  /\ self' = eb.self
                  /\ net' = eb.net
                  /\ ensured' = Ensured(self, o)
                  /\ IF eb.raised
                     THEN /\ End(Raise("Exception", o))
                          /\ touched' = FALSE
                          /\ trace' = <<>>
                     ELSE \E fail \in ScreenshotFailures :
                            LET b == _take_screenshot_async(eb.self, a, fail)
                            IN  /\ End(b.result)
                                /\ touched' = b.touched
                                /\ trace' = b.trace

(***************************************************************************)
(* graph_explorer_view_image                                               *)
(***************************************************************************)
\* What the file system holds at the path.
FileKinds == {"missing", "directory", "file", "unreadable"}

\* _view_image_async: every raise inside is caught and raised again as Exception
_view_image_async(flavour, image_path, fs) ==
    IF Len(image_path) = 0 THEN Raise("Exception", "image_path_required")
    ELSE IF ~is_absolute(flavour, image_path)
    THEN Raise("Exception", "image_path_not_absolute")
    ELSE IF fs = "missing" THEN Raise("Exception", "image_not_found")
    ELSE IF fs = "directory" THEN Raise("Exception", "not_a_file")
    ELSE IF lower_suffix(suffix(image_path)) \notin supported_extensions
    THEN Raise("Exception", "unsupported_format")
    ELSE IF fs = "unreadable" THEN Raise("Exception", "read_failed")
    ELSE Success(<<>>, 0)

graph_explorer_view_image(image_path) ==
    /\ Call("view_image", image_path)
    /\ cascade' = NoCascade
    /\ loc' = NoLoc
    /\ touched' = FALSE
    /\ trace' = <<>>
    /\ UNCHANGED <<platform, tasks, released, lastBody, editorText, self, net, ensured, headerRows, methodText>>
    /\ \E fs \in FileKinds : End(_view_image_async(platform, image_path, fs))

(***************************************************************************)
(* Selector cascades.                                                      *)
(***************************************************************************)
\* What one candidate selector can answer.
WaitOutcomes == {"match", "timeout"}
QueryOutcomes == {"match", "none", "raise"}

\* self.page is None: every call on it raises AttributeError
NoPageDom(n) == [i \in 1..n |-> "no_page"]

\* What the page answers to each of n wait_for_selector candidates.
WaitDoms(s, n) == IF s.page = 0 THEN {NoPageDom(n)} ELSE [1..n -> WaitOutcomes]

\* for selector in selectors: try: el = ...; if el: break; except: continue
\* from candidate i on, dom[j] being what candidate j answers if evaluated;
\* tried collects the answers of the candidates evaluated
RECURSIVE CascadeFrom(_, _, _)
CascadeFrom(dom, i, tried) ==
    IF i > Len(dom) THEN [tried |-> tried, found |-> 0]
    ELSE IF dom[i] = "match" THEN [tried |-> Append(tried, <<i, dom[i]>>), found |-> i]
    ELSE CascadeFrom(dom, i + 1, Append(tried, <<i, dom[i]>>))

\* The same loop without its break: every candidate is evaluated.
RECURSIVE CascadeNoBreak(_, _, _, _)
CascadeNoBreak(dom, i, tried, found) ==
    IF i > Len(dom) THEN [tried |-> tried, found |-> found]
    ELSE CascadeNoBreak(dom, i + 1, Append(tried, <<i, dom[i]>>),
                        IF dom[i] = "match" THEN i ELSE found)

SelectorCascadeNoBreak(target, dom) ==
    LET c == CascadeNoBreak(dom, 1, <<>>, 0)
    IN  [target |-> target, tried |-> c.tried, found |-> c.found]

\* The cascade loops of _run_query_async, _get_response_body_async,
\* _add_single_header and the script of _set_api_url_async.
SelectorCascade(target, dom) ==
    LET c == CascadeFrom(dom, 1, <<>>)
    IN  [target |-> target, tried |-> c.tried, found |-> c.found]

(***************************************************************************)
(* graph_explorer_set_method                                               *)
(***************************************************************************)
MethodInputs ==
    { GET,
      <<"p","a","t","c","h">>,
      <<"D","e","l","e","t","e">>,
      <<"P","u","T">>,
      <<"g","e","t","s">>,
      <<"H","E","A","D">>,
      <<>> }

\* The options the dropdown lists, in page order.
MethodOptions == valid_methods

\* The tool without its check of the method.
MethodAcceptedAny(method) == TRUE

\* The tool's check: method.upper() in valid_methods
MethodAccepted(method) == InList(upper(method), valid_methods)

OptionExists(method) == \E i \in DOMAIN MethodOptions : HasText(MethodOptions[i], method)

\* The first option of the list, whatever its text.
OptionFirst(method) == MethodOptions[1]

\* The first option in the page either option selector matches
\* (div[role="option"] ... :has-text("{method}")).
OptionFor(method) ==
    MethodOptions[CHOOSE i \in DOMAIN MethodOptions :
                    /\ HasText(MethodOptions[i], method)
                    /\ \A j \in 1..(i - 1) : ~HasText(MethodOptions[j], method)]

\* try: wait_for_selector(first) except: wait_for_selector(second)
\* the second wait is not guarded: its TimeoutError leaves the handler
OptionFallback(dom) ==
    IF dom[1] = "match"
    THEN [target |-> "method_option", tried |-> <<<<1, dom[1]>>>>, found |-> 1]
    ELSE [target |-> "method_option", tried |-> <<<<1, dom[1]>>, <<2, dom[2]>>>>,
          found |-> IF dom[2] = "match" THEN 2 ELSE 0]

\* What the open dropdown answers to the two option selectors.
OptionDoms(method) ==
    IF OptionExists(method) THEN [1..2 -> WaitOutcomes]
    ELSE {[i \in 1..2 |-> "timeout"]}

\* _set_http_method_async up to the click that opens the dropdown
\* fail: the first call that raises, if any
SetMethodOpen(s, method, fail) ==
    IF ~InList(upper(method), valid_methods)
    THEN [result |-> Raise("Exception", "invalid_method"), touched |-> FALSE, trace |-> <<>>]
    ELSE IF s.page = 0
    THEN [result |-> Raise("Exception", "no_page"), touched |-> FALSE, trace |-> <<>>]
    ELSE IF fail = "wait_for_selector"
    THEN [result |-> Raise("Exception", "timeout"), touched |-> TRUE, trace |-> <<>>]
    ELSE IF fail = "click"
    THEN [result |-> Raise("Exception", "click_failed"), touched |-> TRUE, trace |-> <<>>]
    ELSE [result |-> NoResult, touched |-> TRUE, trace |-> <<"click:dropdown">>]

graph_explorer_set_method(method) ==
    /\ Call("set_method", method)
    /\ cascade' = NoCascade
    /\ UNCHANGED <<platform, tasks, released, lastBody, editorText, headerRows, methodText>>
    /\ IF ~MethodAccepted(method)
       THEN /\ End(Raise("ValueError", "invalid_method"))
            /\ touched' = FALSE
            /\ trace' = <<>>
            /\ loc' = NoLoc
            /\ UNCHANGED <<self, net, ensured>>
       ELSE \E o \in EnsureOutcomes(self, net) :
              LET eb == ensure_browser(self, net, o)
              IN  /\ self' = eb.self
                  /\ net' = eb.net
                  /\ ensured' = Ensured(self, o)
                  /\ IF eb.raised
                     THEN /\ End(Raise("Exception", o))
                          /\ touched' = FALSE
                          /\ trace' = <<>>
                          /\ loc' = NoLoc
                     ELSE \E fail \in {"none", "wait_for_selector", "click"} :
                            LET method_upper == upper(method)
                                b == SetMethodOpen(eb.self, method_upper, fail)
                            IN  /\ touched' = b.touched
                                /\ trace' = b.trace
                                /\ IF b.result.status = "none"
                                   THEN /\ Goto("sm_option")
                                        /\ loc' = [NoLoc EXCEPT !.method = upper(method_upper)]
                                   ELSE /\ End(b.result)
                                        /\ loc' = NoLoc

\* The option cascade of _set_http_method_async.
SetMethodOption ==
    /\ pc = "sm_option"
    /\ \E dom \in OptionDoms(loc.method) :
         LET c == OptionFallback(dom)
         IN  /\ cascade' = c
             /\ IF c.found = 0
                THEN /\ End(Raise("Exception", "timeout"))
                     /\ loc' = loc
                ELSE /\ Goto("sm_click")
                     /\ loc' = [loc EXCEPT !.element = OptionFor(loc.method)]
    /\ UNCHANGED <<platform, tasks, released, lastBody, editorText, self, net, ensured, headerRows, methodText, op, arg, snap,
                   touched, trace>>

\* option_element.click(), the settle delay and the read-back of the button text
SetMethodClick ==
    /\ pc = "sm_click"
    /\ \E fail \in {"none", "click", "text_content"} :
         IF fail = "click"
         THEN /\ End(Raise("Exception", "click_failed"))
              /\ UNCHANGED <<methodText, trace>>
         ELSE /\ methodText' = loc.element
              /\ trace' = Append(trace, "click:option")
              /\ IF fail = "text_content"
                 THEN End(Raise("Exception", "text_content_failed"))
                 ELSE End(Success(methodText', 0))
    /\ cascade' = NoCascade
    /\ UNCHANGED <<platform, tasks, released, lastBody, editorText, self, net, ensured, headerRows, op, arg, snap, touched, loc>>

(***************************************************************************)
(* graph_explorer_run_query                                                *)
(***************************************************************************)
\* run_button_selectors
RunButtonCandidates == 5

\* _run_query_async: ensure_browser and the run-button cascade
graph_explorer_run_query ==
    /\ Call("run_query", <<>>)
    /\ loc' = NoLoc
    /\ trace' = <<>>
    /\ UNCHANGED <<platform, tasks, released, lastBody, editorText, headerRows, methodText>>
    /\ \E o \in EnsureOutcomes(self, net) :
         LET eb == ensure_browser(self, net, o)
         IN  /\ self' = eb.self
             /\ net' = eb.net
             /\ ensured' = Ensured(self, o)
             /\ IF eb.raised
                THEN /\ End(Raise("Exception", o))
                     /\ touched' = FALSE
                     /\ cascade' = NoCascade
                ELSE \E dom \in WaitDoms(eb.self, RunButtonCandidates) :
                       LET c == SelectorCascade("run_button", dom)
                       IN  /\ cascade' = c
                           /\ touched' = (eb.self.page # 0)
                           /\ IF c.found = 0
                              THEN End(Raise("Exception", "not_found"))
                              ELSE Goto("rq_click")

\* What run_button.is_disabled() gives, what run_button.click() does, and what
\* becomes of the spinner after the click.
DisabledOutcomes == {"False", "True", "raise"}
ClickOutcomes == {"ok", "raise"}
SpinnerOutcomes == {"never_seen", "seen_then_hidden", "seen_still_visible"}

\* _run_query_async from is_disabled on, with the click made whatever
\* is_disabled returned.
RunQueryPressAnyway(is_disabled, click, spinner) ==
    LET checked == IF is_disabled = "True"
                   THEN "is_disabled:True" ELSE "is_disabled:False"
    IN  IF is_disabled = "raise"
        THEN [result |-> Raise("Exception", "is_disabled_failed"),
              trace |-> <<"is_disabled:raise">>]
        ELSE IF click = "raise"
        THEN [result |-> Raise("Exception", "click_failed"),
              trace |-> <<checked, "click:run">>]
        ELSE [result |-> Success(<<>>, 0),
              trace |-> <<checked, "click:run", spinner>>]

\* _run_query_async from is_disabled on: the check of the control, the click,
\* the wait for the spinner (whose failures are passed over) and the settle
\* delay.  The trace records what is_disabled returned and the click.
RunQueryPress(is_disabled, click, spinner) ==
    IF is_disabled = "raise"
    THEN [result |-> Raise("Exception", "is_disabled_failed"),
          trace |-> <<"is_disabled:raise">>]
    ELSE IF is_disabled = "True"
    THEN [result |-> Raise("Exception", "disabled"),
          trace |-> <<"is_disabled:True">>]
    ELSE IF click = "raise"
    THEN [result |-> Raise("Exception", "click_failed"),
          trace |-> <<"is_disabled:False", "click:run">>]
    ELSE [result |-> Success(<<>>, 0),
          trace |-> <<"is_disabled:False", "click:run", spinner>>]

\* is_disabled, click, the wait for the spinner and the settle delay, on the
\* control the cascade resolved
RunQueryClick ==
    /\ pc = "rq_click"
    /\ \E is_disabled \in DisabledOutcomes, click \in ClickOutcomes,
          spinner \in SpinnerOutcomes :
         LET p == RunQueryPress(is_disabled, click, spinner)
         IN  /\ End(p.result)
             /\ trace' = trace \o p.trace
    /\ UNCHANGED <<platform, tasks, released, lastBody, editorText, self, net, ensured, headerRows,
                   methodText, op, arg, snap, touched, loc, cascade>>

(***************************************************************************)
(* graph_explorer_get_response_body                                        *)
(***************************************************************************)
\* editor_selectors
ResponseEditorCandidates == 5

\* What a read of the response editor can give: nothing, blanks only, a body.
NoContent == "No content found in response area"
Contents == {"", "  ", "{..}"}

\* bool(content)
HasContent(c) == c # ""

\* str.strip()
strip(c) == IF c = "  " THEN "" ELSE c

\* _get_response_body_async up to the response area
GetBodyOpen(s, fail) ==
    IF s.page = 0
    THEN [result |-> Raise("Exception", "no_page"), touched |-> FALSE, trace |-> <<>>]
    ELSE IF fail = "tab"
    THEN [result |-> Raise("Exception", "timeout"), touched |-> TRUE, trace |-> <<>>]
    ELSE IF fail = "click"
    THEN [result |-> Raise("Exception", "click_failed"), touched |-> TRUE, trace |-> <<>>]
    ELSE IF fail = "area"
    THEN [result |-> Raise("Exception", "timeout"), touched |-> TRUE,
          trace |-> <<"click:response_tab">>]
    ELSE [result |-> NoResult, touched |-> TRUE, trace |-> <<"click:response_tab">>]

graph_explorer_get_response_body ==
    /\ Call("get_response_body", <<>>)
    /\ loc' = NoLoc
    /\ cascade' = NoCascade
    /\ UNCHANGED <<platform, tasks, released, lastBody, editorText, headerRows, methodText>>
    /\ \E o \in EnsureOutcomes(self, net) :
         LET eb == ensure_browser(self, net, o)
         IN  /\ self' = eb.self
             /\ net' = eb.net
             /\ ensured' = Ensured(self, o)
             /\ IF eb.raised
                THEN /\ End(Raise("Exception", o))
                     /\ touched' = FALSE
                     /\ trace' = <<>>
                ELSE \E fail \in {"none", "tab", "click", "area"} :
                       LET b == GetBodyOpen(eb.self, fail)
                       IN  /\ touched' = b.touched
                           /\ trace' = b.trace
                           /\ IF b.result.status = "none"
                              THEN Goto("gb_cascade")
                              ELSE End(b.result)

\* The response-editor cascade.
GetBodyCascade ==
    /\ pc = "gb_cascade"
    /\ \E dom \in WaitDoms(self, ResponseEditorCandidates) :
         LET c == SelectorCascade("response_editor", dom)
         IN  /\ cascade' = c
             /\ IF c.found = 0
                THEN End(Raise("Exception", "not_found"))
                ELSE Goto("gb_extract")
    /\ UNCHANGED <<platform, tasks, released, lastBody, editorText, self, net, ensured, headerRows, methodText, op, arg, snap,
                   touched, trace, loc>>

\* The three reads, in order, each run only while content is still falsy.
ExtractContent(selection, value, model) ==
    IF HasContent(selection) THEN [content |-> selection, reads |-> <<"read:selection">>]
    ELSE IF HasContent(value)
    THEN [content |-> value, reads |-> <<"read:selection", "read:input_value">>]
    ELSE [content |-> IF HasContent(model) THEN model ELSE NoContent,
          reads |-> <<"read:selection", "read:input_value", "read:model">>]

\* focus, Control+a, the reads and the return of content.strip()
GetBodyExtract ==
    /\ pc = "gb_extract"
    /\ \/ /\ End(Raise("Exception", "read_failed"))
          /\ trace' = trace
       \/ \E selection \in Contents :
          \E value \in (IF HasContent(selection) THEN {""} ELSE Contents) :
          \E model \in (IF HasContent(value) THEN {""} ELSE Contents) :
            LET x == ExtractContent(selection, value, model)
            IN  /\ trace' = trace \o x.reads
                /\ End(Success(<<strip(x.content)>>, 0))
    /\ cascade' = NoCascade
    /\ UNCHANGED <<platform, tasks, released, lastBody, editorText, self, net, ensured, headerRows, methodText, op, arg, snap,
                   touched, loc>>

(***************************************************************************)
(* graph_explorer_set_request_headers                                      *)
(***************************************************************************)
\* A headers dict is the sequence of its items, in insertion order.
Authorization == <<"Authorization", "Bearer x">>
Accept == <<"Accept", "application/json">>

\* Values that are not str.
NonStrings == {"<int 42>"}

\* Keys k with not k.strip()
BlankKeys == {"", " "}

HeaderInputs ==
    { <<>>,
      <<Authorization>>,
      <<Accept>>,
      <<Authorization, Accept>>,
      <<Accept, Authorization>>,
      <<<<" ", "x">>>>,
      <<<<"Accept", "<int 42>">>>>,
      <<Authorization, <<"", "x">>>> }

\* The tool without its loop over headers.items().
HeadersValidAny(headers) == TRUE

\* The tool's loop over headers.items(): every key a non-blank str, every value a str
HeadersValid(headers) ==
    \A i \in DOMAIN headers :
        /\ headers[i][1] \notin BlankKeys
        /\ headers[i][2] \notin NonStrings

\* _set_request_headers_async up to the click on the Request Headers tab
SetHeadersOpen(s, fail) ==
    IF s.page = 0
    THEN [result |-> Raise("Exception", "no_page"), touched |-> FALSE, trace |-> <<>>]
    ELSE IF fail = "tab"
    THEN [result |-> Raise("Exception", "timeout"), touched |-> TRUE, trace |-> <<>>]
    ELSE IF fail = "click"
    THEN [result |-> Raise("Exception", "click_failed"), touched |-> TRUE, trace |-> <<>>]
    ELSE [result |-> NoResult, touched |-> TRUE, trace |-> <<"click:headers_tab">>]

graph_explorer_set_request_headers(headers) ==
    /\ Call("set_headers", headers)
    /\ HeadersValid(headers) => Len(headerRows) + Len(headers) <= MaxRows
    /\ cascade' = NoCascade
    /\ UNCHANGED <<platform, tasks, released, lastBody, editorText, headerRows, methodText>>
    /\ IF ~HeadersValid(headers)
       THEN /\ End(Raise("ValueError", "invalid_header"))
            /\ touched' = FALSE
            /\ trace' = <<>>
            /\ loc' = NoLoc
            /\ UNCHANGED <<self, net, ensured>>
       ELSE \E o \in EnsureOutcomes(self, net) :
              LET eb == ensure_browser(self, net, o)
              IN  /\ self' = eb.self
                  /\ net' = eb.net
                  /\ ensured' = Ensured(self, o)
                  /\ IF eb.raised
                     THEN /\ End(Raise("Exception", o))
                          /\ touched' = FALSE
                          /\ trace' = <<>>
                          /\ loc' = NoLoc
                     ELSE \E fail \in {"none", "tab", "click"} :
                            LET b == SetHeadersOpen(eb.self, fail)
                            IN  /\ touched' = b.touched
                                /\ trace' = b.trace
                                /\ IF b.result.status = "none"
                                   THEN /\ Goto("sh_clear")
                                        /\ loc' = [NoLoc EXCEPT !.headers = headers]
                                   ELSE /\ End(b.result)
                                        /\ loc' = NoLoc

\* The outcome were every header required: raise unless all of them were added.
HeadersResultAll(headers_added) ==
    IF headers_added < Len(arg) THEN Raise("Exception", "no_headers_added")
    ELSE Success(<<>>, headers_added)

\* if headers_added == 0: raise ... ; return "Successfully set {headers_added} ..."
HeadersResult(headers_added) ==
    IF headers_added = 0 THEN Raise("Exception", "no_headers_added")
    ELSE Success(<<>>, headers_added)

\* The rows left after the remove buttons were clicked: the page drops the row
\* of every button whose click went through.
RECURSIVE RowsAfterClicks(_, _)
RowsAfterClicks(rows, clicks) ==
    IF rows = <<>> THEN <<>>
    ELSE IF Head(clicks) = "ok" THEN RowsAfterClicks(Tail(rows), Tail(clicks))
    ELSE <<Head(rows)>> \o RowsAfterClicks(Tail(rows), Tail(clicks))

\* _clear_all_headers with the loop left at the first click that raises.
_clear_all_headers_abort(rows, found, clicks) ==
    LET first == IF \E i \in DOMAIN clicks : clicks[i] = "raise"
                 THEN CHOOSE i \in DOMAIN clicks :
                        /\ clicks[i] = "raise"
                        /\ \A j \in 1..(i - 1) : clicks[j] = "ok"
                 ELSE Len(clicks)
        made == [i \in DOMAIN clicks |-> IF i <= first THEN clicks[i] ELSE "raise"]
    IN  IF found = "raise" THEN [rows |-> rows, removes |-> <<>>, buttons |-> 0]
        ELSE [rows |-> RowsAfterClicks(rows, made),
              removes |-> SubSeq(clicks, 1, first), buttons |-> Len(rows)]

\* _clear_all_headers: query_selector_all, then one click per button found, in
\* the order of the list; a click that raises is logged and the loop goes on.
\* buttons is the length of the list found (one remove button per row).
_clear_all_headers(rows, found, clicks) ==
    IF found = "raise" THEN [rows |-> rows, removes |-> <<>>, buttons |-> 0]
    ELSE [rows |-> RowsAfterClicks(rows, clicks), removes |-> clicks,
          buttons |-> Len(rows)]

\* await self._clear_all_headers(), then the loop over headers.items() begins
SetHeadersClear ==
    /\ pc = "sh_clear"
    /\ \E found \in {"ok", "raise"} :
       \E clicks \in [1..Len(headerRows) -> {"ok", "raise"}] :
         LET c == _clear_all_headers(headerRows, found, clicks)
         IN  /\ headerRows' = c.rows
             /\ loc' = [loc EXCEPT !.removes = c.removes,
                                       !.remove_buttons = c.buttons]
             /\ trace' = trace \o [i \in 1..Len(c.removes) |-> "click:remove"]
             /\ IF loc.headers = <<>>
                THEN End(HeadersResult(0))
                ELSE Goto("sh_container")
    /\ UNCHANGED <<platform, tasks, released, lastBody, editorText, self, net, ensured, methodText, op, arg, snap, touched, cascade>>

\* headers_added after one more _add_single_header call
CountAdded(headers_added, outcome) ==
    IF outcome = "failed" THEN headers_added ELSE headers_added + 1

\* The loop left at the first _add_single_header that raises.
EndAttemptOrLeave(outcome) ==
    LET added == CountAdded(loc.headers_added, outcome)
        rest == Tail(loc.headers)
    IN  /\ loc' = [loc EXCEPT !.headers = rest,
                              !.headers_added = added,
                              !.attempts = Append(@, outcome)]
        /\ IF rest # <<>> /\ outcome # "failed"
           THEN Goto("sh_container")
           ELSE End(HeadersResult(added))

\* One pass of the loop body ends: _add_single_header returned or raised.
EndAttempt(outcome) ==
    LET added == CountAdded(loc.headers_added, outcome)
        rest == Tail(loc.headers)
    IN  /\ loc' = [loc EXCEPT !.headers = rest,
                              !.headers_added = added,
                              !.attempts = Append(@, outcome)]
        /\ IF rest # <<>>
           THEN Goto("sh_container")
           ELSE End(HeadersResult(added))

\* key_input_selectors, value_input_selectors, add_button_selectors
HeaderFieldCandidates == 3

\* _add_single_header: the wait for the container of the empty input row
AddHeaderContainer ==
    /\ pc = "sh_container"
    /\ \E found \in WaitOutcomes :
         IF found = "match"
         THEN Goto("sh_key") /\ loc' = loc
         ELSE EndAttempt("failed")
    /\ UNCHANGED <<platform, tasks, released, lastBody, editorText, self, net, ensured, headerRows, methodText, op, arg, snap,
                   touched, trace, cascade>>

\* One of the three query_selector cascades inside the container.
HeaderCascade(at, target, next) ==
    /\ pc = at
    /\ \E dom \in [1..HeaderFieldCandidates -> QueryOutcomes] :
         LET c == SelectorCascade(target, dom)
         IN  /\ cascade' = c
             /\ IF c.found = 0
                THEN EndAttempt("failed")
                ELSE Goto(next) /\ loc' = loc
    /\ UNCHANGED <<platform, tasks, released, lastBody, editorText, self, net, ensured, headerRows, methodText, op, arg, snap,
                   touched, trace>>

AddHeaderKey == HeaderCascade("sh_key", "header_key", "sh_value")
AddHeaderValue == HeaderCascade("sh_value", "header_value", "sh_button")
AddHeaderButton == HeaderCascade("sh_button", "header_add", "sh_fill")

\* What filling the inputs and clicking Add comes to:
\*   "failed"            a call raised, the click included
\*   "added"             the button was enabled and the click added the row
\*   "clicked_disabled"  the button was still disabled after the focus/blur
\*                       nudge; click(force=True) went through and added nothing
FillOutcomes == {"failed", "added", "clicked_disabled"}

\* The rest of _add_single_header: fill both inputs, check the button, click it.
AddHeaderFill ==
    /\ pc = "sh_fill"
    /\ \E outcome \in FillOutcomes :
         /\ headerRows' = IF outcome = "added"
                          THEN Append(headerRows, Head(loc.headers))
                          ELSE headerRows
         /\ trace' = IF outcome = "failed" THEN trace ELSE Append(trace, "click:add")
         /\ EndAttempt(outcome)
    /\ cascade' = NoCascade
    /\ UNCHANGED <<platform, tasks, released, lastBody, editorText, self, net, ensured, methodText, op, arg, snap, touched>>

(***************************************************************************)
(* graph_explorer_set_request_body                                         *)
(***************************************************************************)
\* Monaco editors the page registers at most.
MaxEditors == 2

\* Texts: json.dumps({"k": 1}, indent=2), the same object written compactly,
\* and two strings of x's around the typing threshold.
Pretty == "{\n  \"k\": 1\n}"
Compact == "{\"k\":1}"
Long == "x*500"

\* len(body)
len(text) ==
    CASE text = Pretty -> 12
      [] text = Compact -> 7
      [] text = Long -> 500
      [] OTHER -> 0

\* The threshold of _set_content_via_keyboard: shorter bodies are typed.
TypingLimit == 500

BodyInputs ==
    { [type |-> "dict", value |-> Pretty],
      [type |-> "str", value |-> Compact],
      [type |-> "str", value |-> Long] }

\* json.dumps(content, indent=2) for a dict, str(content) otherwise
body_str(body) == body.value

\* What the format command (Shift+Alt+f) makes of the editor's text.
Format(text) == IF text = Compact THEN Pretty ELSE text

\* _set_request_body_async up to the focus on the editor's textarea
SetBodyOpen(s, fail) ==
    IF s.page = 0
    THEN [result |-> Raise("Exception", "no_page"), touched |-> FALSE, trace |-> <<>>]
    ELSE IF fail = "tab"
    THEN [result |-> Raise("Exception", "timeout"), touched |-> TRUE, trace |-> <<>>]
    ELSE IF fail = "click"
    THEN [result |-> Raise("Exception", "click_failed"), touched |-> TRUE, trace |-> <<>>]
    ELSE IF fail \in {"area", "editor"}
    THEN [result |-> Raise("Exception", "timeout"), touched |-> TRUE,
          trace |-> <<"click:body_tab">>]
    ELSE IF fail = "focus"
    THEN [result |-> Raise("Exception", "focus_failed"), touched |-> TRUE,
          trace |-> <<"click:body_tab">>]
    ELSE [result |-> NoResult, touched |-> TRUE, trace |-> <<"click:body_tab">>]

\* What the page holds for the Monaco script: it raises, or it finds n editors,
\* of which editor number contained (0: none) lies inside #request-area and
\* editor number request (0: none) is the request-body editor.
MonacoStates ==
    {[raises |-> TRUE, n |-> 0, contained |-> 0, request |-> 0]} \cup
    {[raises |-> FALSE, n |-> n, contained |-> c, request |-> r] :
        n \in 0..MaxEditors, c \in 0..MaxEditors, r \in 0..MaxEditors}

MonacoOk(m) ==
    /\ m.contained <= m.n
    /\ m.request <= m.n
    /\ (m.contained # 0 => m.request = m.contained)

\* The choice with the first editor as the positional fallback.
RequestEditorFirst(n, contained) ==
    IF n = 0 THEN 0
    ELSE IF contained # 0 THEN contained
    ELSE IF n > 1 THEN 1
    ELSE 0

\* The editor the Monaco script sets (0: none, the script returns false).
RequestEditor(n, contained) ==
    IF n = 0 THEN 0
    ELSE IF contained # 0 THEN contained
    ELSE IF n > 1 THEN n
    ELSE 0

\* What stops the keyboard entry, if anything.
KeyboardFailures == {"none", "Escape", "Control+a", "entry"}
\* What the last resort finds: the textarea, no textarea, or the script raises.
RawOutcomes == {"set", "none", "raise"}

\* The entry with bodies of the threshold's length still typed.
EntryInclusive(body) ==
    IF len(body) <= TypingLimit THEN <<"type">>
    ELSE <<"clipboard", "key:Control+v">>

\* How the text is entered: keyboard.type for a body shorter than the
\* threshold, else clipboard.writeText and Control+v.
Entry(body) ==
    IF len(body) < TypingLimit THEN <<"type">>
    ELSE <<"clipboard", "key:Control+v">>

\* The keys _set_content_via_keyboard gets through before call kfail raises.
KeyboardKeys(body, kfail) ==
    LET entry == Entry(body)
    IN  IF kfail = "Escape" THEN <<>>
        ELSE IF kfail = "Control+a" THEN <<"key:Escape">>
        ELSE IF kfail = "entry" THEN <<"key:Escape", "key:Control+a">>
        ELSE <<"key:Escape", "key:Control+a">> \o entry

\* The trace entry of the raw DOM script's outcome.
RawEvent(raw) ==
    CASE raw = "set" -> "raw:set"
      [] raw = "none" -> "raw:none"
      [] raw = "raise" -> "raw:raise"

\* _set_content_via_keyboard with the raw DOM assignment made in every case.
_set_content_raw_always(body, text, kfail, raw) ==
    [raised |-> raw = "raise",
     trace |-> <<"keyboard">> \o KeyboardKeys(body, kfail) \o <<RawEvent(raw)>>,
     text |-> IF kfail = "none" \/ raw = "set" THEN body ELSE text]

\* _set_content_via_keyboard: text is what the editor shows before; a key press
\* or script that raises leaves the editor as it was; the raw DOM script runs in
\* the except branch, does nothing when it finds no textarea, and its own raise
\* leaves the function
_set_content_via_keyboard(body, text, kfail, raw) ==
    LET keys == <<"keyboard">> \o KeyboardKeys(body, kfail)
    IN  IF kfail = "none"
        THEN [raised |-> FALSE, trace |-> keys, text |-> body]
        ELSE [raised |-> raw = "raise",
              trace |-> Append(keys, RawEvent(raw)),
              text |-> IF raw = "set" THEN body ELSE text]

\* What the Monaco script comes to: it raises, returns true or returns false.
NativeOutcome(m) ==
    IF m.raises THEN "native:raise"
    ELSE IF RequestEditor(m.n, m.contained) # 0 THEN "native:true"
    ELSE "native:false"

\* What the Monaco script met: the number of editors, the first of them inside
\* #request-area (0: none) and the editor whose setValue it called (0: none).
MonacoSeen(m) ==
    [NoLoc EXCEPT !.editors = m.n,
                  !.contained = m.contained,
                  !.chosen = IF m.raises THEN 0 ELSE RequestEditor(m.n, m.contained)]

\* _set_request_body_async from the Monaco script on.  The keyboard entry is
\* called in the else branch of the try when the script returned false, and in
\* the except branch when the script raised; a raise of the call in the else
\* branch is caught by that same except branch, which calls it a second time
\* (k2, r2).  The format key press follows, outside the inner try.
SetBodyContent(body, text, m, k1, r1, k2, r2, fmt) ==
    LET native == NativeOutcome(m)
        first == _set_content_via_keyboard(body, text, k1, r1)
        second == _set_content_via_keyboard(body, first.text, k2, r2)
        set == IF native = "native:true"
               THEN [raised |-> FALSE, trace |-> <<native>>,
                     text |-> IF RequestEditor(m.n, m.contained) = m.request
                              THEN body ELSE text]
               ELSE IF native = "native:raise" \/ ~first.raised
               THEN [first EXCEPT !.trace = <<native>> \o @]
               ELSE [second EXCEPT !.trace = <<native>> \o first.trace \o @]
    IN  IF set.raised
        THEN [result |-> Raise("Exception", "set_content_failed"),
              trace |-> set.trace, text |-> set.text]
        ELSE IF fmt = "raise"
        THEN [result |-> Raise("Exception", "format_failed"),
              trace |-> Append(set.trace, "format:raise"), text |-> set.text]
        ELSE [result |-> Success(<<>>, len(body)),
              trace |-> Append(set.trace, "key:Shift+Alt+f"),
              text |-> Format(set.text)]

\* except Exception as e: raise ValueError(f"Invalid request body format: ...")
BodyToolError(r) ==
    IF r.status = "Exception" THEN Raise("ValueError", "invalid_body_format") ELSE r

graph_explorer_set_request_body(body) ==
    /\ Call("set_request_body", body)
    /\ cascade' = NoCascade
    /\ UNCHANGED <<platform, tasks, released, lastBody, headerRows, methodText>>
    /\ \E o \in EnsureOutcomes(self, net) :
         LET eb == ensure_browser(self, net, o)
         IN  /\ self' = eb.self
             /\ net' = eb.net
             /\ ensured' = Ensured(self, o)
             /\ IF eb.raised
                THEN /\ End(BodyToolError(Raise("Exception", o)))
                     /\ touched' = FALSE
                     /\ trace' = <<>>
                     /\ editorText' = editorText
                     /\ loc' = NoLoc
                ELSE \E fail \in {"none", "tab", "click", "area", "editor", "focus"} :
                       LET b == SetBodyOpen(eb.self, fail)
                       IN  /\ touched' = b.touched
                           /\ IF b.result.status # "none"
                              THEN /\ End(BodyToolError(b.result))
                                   /\ trace' = b.trace
                                   /\ editorText' = editorText
                                   /\ loc' = NoLoc
                              ELSE \E m \in {x \in MonacoStates : MonacoOk(x)} :
                                   \E k1 \in (IF NativeOutcome(m) = "native:true"
                                               THEN {"none"} ELSE KeyboardFailures) :
                                   \E r1 \in (IF k1 = "none" THEN {"set"} ELSE RawOutcomes) :
                                   \E k2 \in (IF NativeOutcome(m) = "native:false" /\ r1 = "raise"
                                               THEN KeyboardFailures ELSE {"none"}) :
                                   \E r2 \in (IF k2 = "none" THEN {"set"} ELSE RawOutcomes),
                                      fmt \in {"ok", "raise"} :
                                     LET c == SetBodyContent(body_str(body), editorText,
                                                             m, k1, r1, k2, r2, fmt)
                                     IN  /\ End(BodyToolError(c.result))
                                         /\ trace' = b.trace \o c.trace
                                         /\ editorText' = c.text
                                         /\ loc' = MonacoSeen(m)

(***************************************************************************)
(* graph_explorer_set_url                                                  *)
(***************************************************************************)
\* URLs are sequences of their parts.
GraphPrefix == <<"https://", "graph.microsoft.com", "/">>

UrlInputs ==
    { GraphPrefix \o <<"v1.0/me">>,
      GraphPrefix,
      <<"https://", "graph.microsoft.com">>,
      <<"http://", "graph.microsoft.com", "/", "v1.0/me">>,
      <<"https://", "graph.microsoft.com", ".example.org", "/">>,
      <<>> }

\* The tool without its check of the URL.
UrlAcceptedAny(api_url) == TRUE

\* The tool's check: api_url.startswith("https://graph.microsoft.com/")
UrlAccepted(api_url) == startswith(api_url, GraphPrefix)

\* The selectors of the injected script: textarea, then input.
UrlInputCandidates == 2

\* _set_api_url_async after ensure_browser: the injected script looks for the
\* input (dom), sets its value and reports; js: the script's try block or the
\* evaluate call itself fails
_set_api_url_async(s, api_url, dom, js) ==
    IF s.page = 0
    THEN [result |-> Raise("Exception", "no_page"), touched |-> FALSE,
          cascade |-> NoCascade]
    ELSE IF js = "evaluate_failed"
    THEN [result |-> Raise("Exception", "evaluate_failed"), touched |-> TRUE,
          cascade |-> NoCascade]
    ELSE
      LET c == SelectorCascade("url_input", dom)
      IN  IF c.found = 0
          THEN [result |-> Raise("Exception", "not_found"), touched |-> TRUE,
                cascade |-> c]
          ELSE IF js = "set_failed"
          THEN [result |-> Raise("Exception", "set_failed"), touched |-> TRUE,
                cascade |-> c]
          ELSE [result |-> Success(api_url, 0), touched |-> TRUE, cascade |-> c]

graph_explorer_set_url(api_url) ==
    /\ Call("set_url", api_url)
    /\ loc' = NoLoc
    /\ trace' = <<>>
    /\ UNCHANGED <<platform, tasks, released, lastBody, headerRows, methodText, editorText>>
    /\ IF ~UrlAccepted(api_url)
       THEN /\ End(Raise("ValueError", "invalid_url"))
            /\ touched' = FALSE
            /\ cascade' = NoCascade
            /\ UNCHANGED <<self, net, ensured>>
       ELSE \E o \in EnsureOutcomes(self, net) :
              LET eb == ensure_browser(self, net, o)
              IN  /\ self' = eb.self
                  /\ net' = eb.net
                  /\ ensured' = Ensured(self, o)
                  /\ IF eb.raised
                     THEN /\ End(Raise("Exception", o))
                          /\ touched' = FALSE
                          /\ cascade' = NoCascade
                     ELSE \E dom \in [1..UrlInputCandidates -> {"match", "none"}],
                             js \in {"ok", "evaluate_failed", "set_failed"} :
                            LET b == _set_api_url_async(eb.self, api_url, dom, js)
                            IN  /\ End(b.result)
                                /\ touched' = b.touched
                                /\ cascade' = b.cascade

(***************************************************************************)
(* graph_explorer_navigate                                                 *)
(***************************************************************************)
\* What becomes of the sidebar's minimize control: it is clicked, the wait for
\* it times out, or the click raises.
SidebarOutcomes == {"clicked", "timeout", "click_failed"}

SidebarEvent(sidebar) ==
    CASE sidebar = "clicked" -> "click:minimize"
      [] sidebar = "timeout" -> "sidebar:timeout"
      [] sidebar = "click_failed" -> "sidebar:click_failed"

\* The sidebar step with its failures left to reach the outer handler.
SidebarStepFatal(sidebar) ==
    [raised |-> sidebar # "clicked", trace |-> <<SidebarEvent(sidebar)>>]

\* The sidebar step: its try block catches every exception and logs a warning.
SidebarStep(sidebar) ==
    [raised |-> FALSE, trace |-> <<SidebarEvent(sidebar)>>]

\* _navigate_to_graph_explorer_async after ensure_browser
\* nav: goto or bring_to_front raises, or both go through
_navigate_to_graph_explorer_async(s, nav, sidebar) ==
    LET side == SidebarStep(sidebar)
    IN
    IF s.page = 0
    THEN [result |-> Raise("Exception", "no_page"), touched |-> FALSE,
          trace |-> <<>>, loaded |-> FALSE]
    ELSE IF nav = "goto"
    THEN [result |-> Raise("Exception", "navigation_failed"), touched |-> TRUE,
          trace |-> <<>>, loaded |-> FALSE]
    ELSE IF nav = "bring_to_front"
    THEN [result |-> Raise("Exception", "navigation_failed"), touched |-> TRUE,
          trace |-> <<"goto">>, loaded |-> TRUE]
    ELSE [result |-> IF side.raised THEN Raise("Exception", "navigation_failed")
                     ELSE Success(<<>>, 0),
          touched |-> TRUE,
          trace |-> <<"goto", "bring_to_front">> \o side.trace,
          loaded |-> TRUE]

graph_explorer_navigate ==
    /\ Call("navigate", <<>>)
    /\ loc' = NoLoc
    /\ cascade' = NoCascade
    /\ UNCHANGED <<platform, tasks, released, lastBody>>
    /\ \E o \in EnsureOutcomes(self, net) :
         LET eb == ensure_browser(self, net, o)
         IN  /\ self' = eb.self
             /\ net' = eb.net
             /\ ensured' = Ensured(self, o)
             /\ IF eb.raised
                THEN /\ End(Raise("Exception", o))
                     /\ touched' = FALSE
                     /\ trace' = <<>>
                     /\ UNCHANGED <<headerRows, methodText, editorText>>
                ELSE \E nav \in {"ok", "goto", "bring_to_front"},
                        sidebar \in SidebarOutcomes :
                       LET b == _navigate_to_graph_explorer_async(eb.self, nav, sidebar)
                       IN  /\ End(b.result)
                           /\ touched' = b.touched
                           /\ trace' = b.trace
                           /\ IF b.loaded
                              THEN /\ headerRows' = <<>>
                                   /\ methodText' = GET
                                   /\ editorText' = ""
                              ELSE UNCHANGED <<headerRows, methodText, editorText>>

(***************************************************************************)
(* graph_explorer_get_response_status                                      *)
(***************************************************************************)
\* What text_content() of the status bar gives; "None" is Python's None.
StatusTexts == {"None", "", "  ", "OK - 200 - 723 ms"}

\* The trace entry of what text_content() gave.
StatusTextEvent(text) ==
    IF text = "None" THEN "text_content:None"
    ELSE IF text = "" THEN "text_content:empty"
    ELSE "text_content:text"

\* _get_response_status_async after ensure_browser: the wait for the status
\* bar, its text_content(), the test `if not status_content` and the strip
_get_response_status_async(s, found, text) ==
    IF s.page = 0
    THEN [result |-> Raise("Exception", "no_page"), touched |-> FALSE, trace |-> <<>>]
    ELSE IF found = "timeout"
    THEN [result |-> Raise("Exception", "timeout"), touched |-> TRUE, trace |-> <<>>]
    ELSE IF text = "None" \/ ~HasContent(text)
    THEN [result |-> Raise("Exception", "no_content"), touched |-> TRUE,
          trace |-> <<"status_bar:found", StatusTextEvent(text)>>]
    ELSE [result |-> Success(<<strip(text)>>, 0), touched |-> TRUE,
          trace |-> <<"status_bar:found", StatusTextEvent(text)>>]

graph_explorer_get_response_status ==
    /\ Call("get_response_status", <<>>)
    /\ loc' = NoLoc
    /\ cascade' = NoCascade
    /\ UNCHANGED <<platform, tasks, released, lastBody, headerRows, methodText, editorText>>
    /\ \E o \in EnsureOutcomes(self, net) :
         LET eb == ensure_browser(self, net, o)
         IN  /\ self' = eb.self
             /\ net' = eb.net
             /\ ensured' = Ensured(self, o)
             /\ IF eb.raised
                THEN /\ End(Raise("Exception", o))
                     /\ touched' = FALSE
                     /\ trace' = <<>>
                ELSE \E found \in WaitOutcomes, text \in StatusTexts :
                       LET b == _get_response_status_async(eb.self, found, text)
                       IN  /\ End(b.result)
                           /\ touched' = b.touched
                           /\ trace' = b.trace

(***************************************************************************)
(* cleanup, called once by run_server when the server stops                *)
(***************************************************************************)
\* The same calls in the order the resources were acquired.
ReleaseOrderAsAcquired(s) ==
    (IF s.playwright # 0 THEN <<"playwright.stop">> ELSE <<>>) \o
    (IF s.browser # 0 THEN <<"browser.close">> ELSE <<>>) \o
    (IF s.context # 0 THEN <<"context.close">> ELSE <<>>)

\* The calls of cleanup's three ifs, in their order, for the fields that are set.
ReleaseOrder(s) ==
    (IF s.context # 0 THEN <<"context.close">> ELSE <<>>) \o
    (IF s.browser # 0 THEN <<"browser.close">> ELSE <<>>) \o
    (IF s.playwright # 0 THEN <<"playwright.stop">> ELSE <<>>)

\* The calls cleanup makes when call number raises (0: none) raises: nothing
\* catches it, so the calls after it are not made
cleanup_calls(s, raises) ==
    IF raises = 0 THEN ReleaseOrder(s) ELSE SubSeq(ReleaseOrder(s), 1, raises)

\* The handle a release call is made on.
ReleaseHandle(s, call) ==
    CASE call = "context.close" -> s.context
      [] call = "browser.close" -> s.browser
      [] call = "playwright.stop" -> s.playwright

\* The calls of cleanup that returned, each with its handle: all of them, or
\* those before the one that raised.
cleanup_released(s, raises) ==
    LET made == IF raises = 0 THEN ReleaseOrder(s)
                ELSE SubSeq(ReleaseOrder(s), 1, raises - 1)
    IN  [i \in 1..Len(made) |-> <<made[i], ReleaseHandle(s, made[i])>>]

\* finally: asyncio.run(self.cleanup()); cleanup assigns no field
cleanup ==
    /\ pc = "idle"
    /\ pc' = "stopped"
    /\ op' = "cleanup"
    /\ \E raises \in 0..Len(ReleaseOrder(self)) :
         /\ trace' = cleanup_calls(self, raises)
         /\ released' = released \o cleanup_released(self, raises)
         /\ result' = IF raises = 0 THEN Success(<<>>, 0)
                                    ELSE Raise("Exception", "cleanup_failed")
    /\ UNCHANGED <<platform, tasks, lastBody, editorText, self, net, ensured, headerRows, methodText,
                   arg, snap, touched, cascade, loc>>

(***************************************************************************)
(* The specification.                                                      *)
(***************************************************************************)
Init ==
    /\ platform \in {"posix", "nt"}
    /\ self = NewSelf
    /\ net = [starts |-> 0, connects |-> 0, pages |-> 0]
    /\ headerRows = <<>>
    /\ methodText = GET
    /\ editorText = ""
    /\ pc = "idle"
    /\ op = ""
    /\ arg = <<>>
    /\ snap = [self |-> NewSelf, net |-> [starts |-> 0, connects |-> 0, pages |-> 0]]
    /\ result = NoResult
    /\ touched = FALSE
    /\ trace = <<>>
    /\ cascade = NoCascade
    /\ loc = NoLoc
    /\ ensured = "none"
    /\ lastBody = "none"
    /\ released = <<>>
    /\ tasks = NoTasks

Next ==
    \/ \E a \in ScreenshotArgs : graph_explorer_screenshot(a)
    \/ \E b \in BodyInputs : graph_explorer_set_request_body(b)
    \/ \E p \in PathInputs : graph_explorer_view_image(p)
    \/ \E m \in MethodInputs : graph_explorer_set_method(m)
    \/ SetMethodOption
    \/ SetMethodClick
    \/ graph_explorer_run_query
    \/ RunQueryClick
    \/ graph_explorer_get_response_body
    \/ GetBodyCascade
    \/ GetBodyExtract
    \/ \E h \in HeaderInputs : graph_explorer_set_request_headers(h)
    \/ SetHeadersClear
    \/ AddHeaderContainer
    \/ AddHeaderKey
    \/ AddHeaderValue
    \/ AddHeaderButton
    \/ AddHeaderFill
    \/ \E u \in UrlInputs : graph_explorer_set_url(u)
    \/ graph_explorer_navigate
    \/ graph_explorer_get_response_status
    \/ Return
    \/ cleanup

Spec == Init /\ [][Next]_vars

\* Successive set-request-body calls, each remembered when it ends.
NextHistory ==
    \/ \E b \in BodyInputs : graph_explorer_set_request_body(b)
    \/ ReturnRemembering

SpecHistory == Init /\ [][NextHistory]_vars

(***************************************************************************)
(* Two tool calls as concurrent tasks of the one event loop.  A task runs  *)
(* alone from one await to the next; ensure_browser has three awaits       *)
(* (start, connect_over_cdp, new_page) and takes no lock.                  *)
(***************************************************************************)
\* The parts of the state the tasks leave alone.
TaskFrame ==
    UNCHANGED <<platform, released, headerRows, methodText, editorText, pc, op,
                arg, snap, result, touched, trace, cascade, loc, ensured,
                lastBody>>

\* The caller's first use of self.page after `await self.ensure_browser()`,
\* in the stretch in which ensure_browser returned: page 0 is None.
TaskUsePage(t, page) ==
    tasks' = [tasks EXCEPT ![t].pc = "done", ![t].page = page]

\* The task's call begins: ensure_browser tests `if not self.browser`; with a
\* browser stored it returns without an await and the caller uses self.page,
\* otherwise it calls async_playwright().start() and awaits.
TaskEnter(t) ==
    /\ tasks[t].pc = "idle"
    /\ IF self.browser # 0
       THEN TaskUsePage(t, self.page)
       ELSE tasks' = [tasks EXCEPT ![t].pc = "starting"]
    /\ UNCHANGED <<self, net>>
    /\ TaskFrame

\* start() returns or raises; on return self.playwright is assigned and
\* connect_over_cdp is called and awaited.
TaskStarted(t) ==
    /\ tasks[t].pc = "starting"
    /\ \E o \in {"ok", "start_failed"} :
         IF o = "start_failed"
         THEN /\ tasks' = [tasks EXCEPT ![t].pc = "failed"]
              /\ UNCHANGED <<self, net>>
         ELSE /\ self' = [self EXCEPT !.playwright = net.starts + 1]
              /\ net' = [net EXCEPT !.starts = @ + 1, !.connects = @ + 1]
              /\ tasks' = [tasks EXCEPT ![t].pc = "connecting",
                                        ![t].conn = net.connects + 1]
    /\ TaskFrame

\* connect_over_cdp returns or raises; on return self.browser is assigned,
\* contexts[0] is taken (or is missing), new_page is called and awaited.
TaskConnected(t) ==
    /\ tasks[t].pc = "connecting"
    /\ \E o \in {"ok", "connect_failed", "no_context"} :
         /\ self' = CASE o = "connect_failed" -> self
                      [] o = "no_context" ->
                            [self EXCEPT !.browser = tasks[t].conn]
                      [] o = "ok" ->
                            [self EXCEPT !.browser = tasks[t].conn,
                                         !.context = tasks[t].conn]
         /\ tasks' = [tasks EXCEPT ![t].pc =
                         IF o = "ok" THEN "opening" ELSE "failed"]
    /\ UNCHANGED net
    /\ TaskFrame

\* new_page returns or raises; on return self.page is assigned,
\* ensure_browser returns and the caller uses self.page.
TaskOpened(t) ==
    /\ tasks[t].pc = "opening"
    /\ \E o \in {"ok", "new_page_failed"} :
         IF o = "new_page_failed"
         THEN /\ tasks' = [tasks EXCEPT ![t].pc = "failed"]
              /\ UNCHANGED <<self, net>>
         ELSE /\ self' = [self EXCEPT !.page = net.pages + 1]
              /\ net' = [net EXCEPT !.pages = @ + 1]
              /\ TaskUsePage(t, net.pages + 1)
    /\ TaskFrame

NextConcurrent ==
    \/ \E t \in Tasks : TaskEnter(t)
    \/ \E t \in Tasks : TaskStarted(t)
    \/ \E t \in Tasks : TaskConnected(t)
    \/ \E t \in Tasks : TaskOpened(t)

SpecConcurrent == Init /\ [][NextConcurrent]_vars

(***************************************************************************)
(* A caller that keeps the object after cleanup(): cleanup is a public     *)
(* coroutine that returns None and assigns no field, so the object can be  *)
(* cleaned up again and its tools can be called again.                     *)
(***************************************************************************)
\* The release calls after which the caller stops going on.
MaxReleased == 3

\* cleanup() has returned (or raised) to its caller, which goes on.
CleanupReturn ==
    /\ pc = "stopped"
    /\ Len(released) <= MaxReleased
    /\ pc' = "idle"
    /\ op' = ""
    /\ arg' = <<>>
    /\ snap' = Session
    /\ result' = NoResult
    /\ touched' = FALSE
    /\ trace' = <<>>
    /\ cascade' = NoCascade
    /\ loc' = NoLoc
    /\ ensured' = "none"
    /\ UNCHANGED <<platform, tasks, released, lastBody, editorText, self, net,
                   headerRows, methodText>>

NextLifecycle ==
    \/ graph_explorer_navigate
    \/ graph_explorer_get_response_status
    \/ Return
    \/ cleanup
    \/ CleanupReturn

SpecLifecycle == Init /\ [][NextLifecycle]_vars

(***************************************************************************)
(* Properties.                                                             *)
(***************************************************************************)
\* The call of tool name has finished and its outcome is in result.
Done(name) == pc = "done" /\ op = name

\* Event e is among the clicks, key presses and captures of this call.
InTrace(e) == \E i \in DOMAIN trace : trace[i] = e

\* This call made no call on the page and left the fields and the browser side
\* as they were when it began.
NoBrowserUse == Session = snap /\ ~touched /\ trace = <<>>

\* The rows the page shows are exactly the entries of mapping H.
RowsAre(H) ==
    /\ Len(headerRows) = Len(H)
    /\ {headerRows[i] : i \in DOMAIN headerRows} = {H[i] : i \in DOMAIN H}

\* Every entry of the mapping was attempted and its Add click added its row.
AllAdded ==
    /\ Len(loc.attempts) = Len(arg)
    /\ \A i \in DOMAIN loc.attempts : loc.attempts[i] = "added"

\* C1, as the specification states it, for the calls in which every addition
\* went through: after a set-headers call that reports success with mapping H,
\* the header rows the page shows are exactly the entries of H, whatever rows
\* were there before and whatever happened to the remove clicks.  The code does
\* not keep this: a remove click that raises is logged and skipped, its row
\* stays, and the call goes on to add H and report success.
C1_HeadersReplaced ==
    (Done("set_headers") /\ result.status = "ok" /\ AllAdded) => RowsAre(arg)

\* C2, as the specification states it, for the calls that reached the clearing
\* step: a set-headers call with the empty mapping leaves no header row.  The
\* code does not keep this: the row of a remove click that raised stays.
C2_EmptyMappingClears ==
    (Done("set_headers") /\ arg = <<>> /\ InTrace("click:headers_tab"))
        => headerRows = <<>>

\* C3: set-headers reports success if at least one _add_single_header call
\* returned, and reports failure only if every addition it attempted raised
\* (none attempted, for the empty mapping, included).
C3_SuccessIffOneAdded ==
    Done("set_headers") =>
        /\ (\E i \in DOMAIN loc.attempts : loc.attempts[i] # "failed")
               => result.status = "ok"
        /\ result.status # "ok"
               => (\A i \in DOMAIN loc.attempts : loc.attempts[i] = "failed")

\* A call with two headers of which one addition raised and one returned,
\* reported as a success.
C3_Witness ==
    /\ Done("set_headers")
    /\ result.status = "ok"
    /\ Len(loc.attempts) = 2
    /\ \E i \in DOMAIN loc.attempts : loc.attempts[i] = "failed"

\* C4: in every selector cascade the candidates are evaluated in list order,
\* each once; the candidate accepted is the first one that matched, and no
\* candidate after it is evaluated.
C4_FirstMatchWins ==
    cascade.target # "" =>
        LET k == Len(cascade.tried)
        IN  /\ \A j \in 1..k : cascade.tried[j][1] = j
            /\ \A j \in 1..k : (cascade.tried[j][2] = "match") <=> (j = cascade.found)
            /\ cascade.found # 0 => cascade.found = k

\* The value-input cascade of a header: the first candidate did not match, the
\* second did, the third was not evaluated.
C4_Witness ==
    /\ cascade.target = "header_value"
    /\ cascade.found = 2
    /\ Len(cascade.tried) = 2

\* The number of candidates of a cascade.
Candidates(target) ==
    CASE target = "run_button" -> RunButtonCandidates
      [] target = "response_editor" -> ResponseEditorCandidates
      [] target = "method_option" -> 2
      [] target = "url_input" -> UrlInputCandidates
      [] OTHER -> HeaderFieldCandidates

\* C5, as the specification states it, for the cascades of run-query and
\* set-method: when no candidate matches, each candidate was tried exactly once,
\* the operation fails saying the element was not found, and the target is not
\* clicked.  The code does not keep this in set-method: the second option
\* selector is waited for outside the try, so its TimeoutError is the failure
\* and the "not found" raise after it is never reached.
C5_AllFailNotFound ==
    (pc = "done" /\ cascade.target \in {"run_button", "method_option"}
                 /\ cascade.found = 0) =>
        /\ Len(cascade.tried) = Candidates(cascade.target)
        /\ \A j \in DOMAIN cascade.tried : cascade.tried[j][1] = j
        /\ result = Raise("Exception", "not_found")
        /\ ~InTrace("click:run")
        /\ ~InTrace("click:option")

\* C6: a set-method call whose method, uppercased, is not one of GET, POST, PUT,
\* PATCH, DELETE ends in a ValueError with no call on the page made, no dropdown
\* opened, and the fields and the browser side as they were.
C6_InvalidMethodRejected ==
    (Done("set_method") /\ ~InList(upper(arg), valid_methods)) =>
        /\ result = Raise("ValueError", "invalid_method")
        /\ NoBrowserUse
        /\ ~InTrace("click:dropdown")

\* "gets" is rejected by a server that has never connected.
C6_Witness ==
    /\ Done("set_method")
    /\ arg = <<"g", "e", "t", "s">>
    /\ result.status = "ValueError"
    /\ self = NewSelf

C8_ValueErrorBeforeBrowser ==
    (/\ pc = "done"
     /\ op \in {"set_url", "set_method", "set_request_body", "set_headers", "screenshot"}
     /\ result.status = "ValueError")
        => NoBrowserUse

\* C9: a screenshot call with a non-absolute save path, and a view-image call
\* with a non-absolute image path, is rejected, with the outcome its input
\* alone fixes, no call on the page made, and the fields and the browser side
\* as they were.
C9_RelativePathRejected ==
    /\ (Done("screenshot") /\ ~is_absolute(platform, arg.save_path)) =>
           /\ result = Raise("ValueError", "save_path_not_absolute")
           /\ NoBrowserUse
    /\ (Done("view_image") /\ ~is_absolute(platform, arg)) =>
           /\ result = Raise("Exception", IF arg = <<>> THEN "image_path_required"
                                                        ELSE "image_path_not_absolute")
           /\ NoBrowserUse

\* A relative save path is rejected by a server that holds a page.
C9_Witness ==
    /\ Done("screenshot")
    /\ arg.save_path = <<"shots", "a.png">>
    /\ result.status = "ValueError"
    /\ self.page # 0

\* C10: while the browser is held no step connects, opens a page or changes a
\* field, so there is never more than one page.
C10_AcquiredOnce ==
    [][/\ self.browser # 0 => (net' = net /\ self' = self)
       /\ net'.pages <= 1]_vars

\* A call that began with the session held has used its page, and that page is
\* still the only one.
C10_Witness ==
    /\ pc = "done"
    /\ snap.self.page # 0
    /\ touched
    /\ result.status = "ok"
    /\ net = [starts |-> 1, connects |-> 1, pages |-> 1]

\* C11: a call in which connect_over_cdp raises ends in a failure and stores no
\* browser, context or page; and every call that reaches ensure_browser while
\* no browser is stored connects again (unless starting the runtime, which
\* comes first, raises).
C11_ConnectRetried ==
    [][/\ (ensured' = "connect_failed" /\ ensured = "none") =>
             /\ pc' = "done"
             /\ result'.status \in {"Exception", "ValueError"}
             /\ self'.browser = 0 /\ self'.context = 0 /\ self'.page = 0
       /\ (pc = "idle" /\ self.browser = 0 /\ ensured' # "none") =>
             \/ net'.connects = net.connects + 1
             \/ ensured' = "start_failed"]_vars

\* After a connect that failed, a later call connected a second time and holds
\* a page.
C11_Witness ==
    /\ pc = "done"
    /\ ensured = "ok"
    /\ net.connects = 2
    /\ self.page # 0

\* The place of a release call in the reverse of the acquisition order
\* (runtime started, browser connected, context taken).
ReleaseRank(e) ==
    CASE e = "context.close" -> 1
      [] e = "browser.close" -> 2
      [] e = "playwright.stop" -> 3

\* C12: cleanup makes its calls in the order context close, browser close,
\* runtime stop, the reverse of the order of acquisition; when none of them
\* raises, every resource held is released.
C12_ReverseOrderRelease ==
    pc = "stopped" =>
        /\ \A i, j \in DOMAIN trace :
               i < j => ReleaseRank(trace[i]) < ReleaseRank(trace[j])
        /\ result.status = "ok" =>
               /\ self.context # 0 => InTrace("context.close")
               /\ self.browser # 0 => InTrace("browser.close")
               /\ self.playwright # 0 => InTrace("playwright.stop")

\* An established session was released in full.
C12_Witness ==
    /\ pc = "stopped"
    /\ self.page # 0
    /\ trace = <<"context.close", "browser.close", "playwright.stop">>

\* C13, as the specification states it: whichever call of cleanup raises, the
\* calls for the other resources held are still made.  The code does not keep
\* this: cleanup has no try, so the first call that raises ends it.
C13_EveryStepAttempted ==
    pc = "stopped" =>
        /\ self.context # 0 => InTrace("context.close")
        /\ self.browser # 0 => InTrace("browser.close")
        /\ self.playwright # 0 => InTrace("playwright.stop")

\* C14: a call that ends in a timeout or an element-not-found failure has left
\* the browser, context and page it found as they were, handing it back changes
\* none of them, and a call that begins with the browser held runs on the same
\* handles with no new connect and no new page.
C14_FailureKeepsSession ==
    [][/\ (pc = "done" /\ result.kind \in {"timeout", "not_found"}) =>
             /\ self.browser # 0
             /\ ensured = "held" => Session = snap
             /\ self' = self /\ net' = net
       /\ (pc = "idle" /\ self.browser # 0) =>
             (self' = self /\ net' = net)]_vars

\* Run-query found no button on the page of a session it had not opened itself.
C14_Witness ==
    /\ Done("run_query")
    /\ result = Raise("Exception", "not_found")
    /\ ensured = "held"
    /\ self.page # 0
    /\ Session = snap

\* The events of the three injection strategies in the trace of a call.
IsNative(e) == e \in {"native:true", "native:false", "native:raise"}
IsRaw(e) == e \in {"raw:set", "raw:none", "raw:raise"}
IsStrategy(e) == IsNative(e) \/ e = "keyboard" \/ IsRaw(e)
\* The keyboard entry got as far as typing or pasting the text.
Entered(e) == e \in {"type", "key:Control+v"}

\* C15: in set-request-body the native script runs first; the keyboard entry
\* is begun only after the native script returned false or raised and nothing
\* before it set the text; the raw DOM assignment runs only right after a
\* keyboard entry that raised; and once the native script returned true or the
\* keyboard entry went through, no strategy runs after it.
C15_StrategyOrder ==
    Done("set_request_body") =>
        \A i \in DOMAIN trace :
            /\ IsNative(trace[i]) =>
                   \A j \in 1..(i - 1) : ~IsStrategy(trace[j])
            /\ trace[i] = "keyboard" =>
                   /\ \E j \in 1..(i - 1) : trace[j] \in {"native:false", "native:raise"}
                   /\ \A j \in 1..(i - 1) :
                          trace[j] \notin {"native:true", "raw:set", "raw:none"}
                          /\ ~Entered(trace[j])
            /\ IsRaw(trace[i]) =>
                   \E k \in 1..(i - 1) :
                       /\ trace[k] = "keyboard"
                       /\ \A j \in (k + 1)..(i - 1) :
                              trace[j] \in {"key:Escape", "key:Control+a"}
            /\ (trace[i] = "native:true" \/ Entered(trace[i])) =>
                   \A j \in (i + 1)..Len(trace) : ~IsStrategy(trace[j])

\* The native script returned false, the keyboard entry raised, and the raw DOM
\* assignment set the text.
C15_Witness ==
    /\ Done("set_request_body")
    /\ result.status = "ok"
    /\ InTrace("native:false")
    /\ InTrace("raw:set")

\* C16, as the specification states it: when the native script did not set the
\* text, the keyboard entry raised and the raw DOM assignment found no textarea
\* or raised, set-request-body reports a failure and has run the keyboard entry
\* once.  The code does not keep this: a raw DOM script that finds no textarea
\* returns normally and success is reported; and a raise of the keyboard
\* function called after the script returned false is caught by the handler of
\* the script's own failure, which runs the keyboard function a second time.
C16_AllFailedIsFailure ==
    (/\ Done("set_request_body")
     /\ InTrace("native:false") \/ InTrace("native:raise")
     /\ InTrace("raw:none") \/ InTrace("raw:raise")) =>
        /\ result.status # "ok"
        /\ Cardinality({i \in DOMAIN trace : trace[i] = "keyboard"}) = 1

\* C17, as the specification states it: when two successive set-request-body
\* calls were given the same text and both reported success, the request editor
\* shows exactly that text (texts the format command leaves as they are).  The
\* code does not keep this: the raw DOM script that finds no textarea sets
\* nothing and returns normally (see C16), and the Monaco script writes to the
\* last editor on the page, which need not be the request editor.
C17_SameTextTwice ==
    (/\ Done("set_request_body")
     /\ result.status = "ok"
     /\ lastBody = body_str(arg)
     /\ Format(lastBody) = lastBody) => editorText = body_str(arg)

\* C18, as the specification states it: when the format key press raises after
\* the content was set, set-request-body still reports success.  The code does
\* not keep this: the key press is not guarded, so its exception fails the call.
C18_FormatBestEffort ==
    (Done("set_request_body") /\ InTrace("format:raise")) => result.status = "ok"

\* C19: in a run-query call, when is_disabled returned True for the resolved
\* control the call fails and no click is made; and a click is made only on a
\* control the cascade resolved and for which is_disabled returned False just
\* before.
C19_DisabledNeverClicked ==
    op = "run_query" =>
        /\ InTrace("is_disabled:True") =>
                (pc = "done" /\ result.status # "ok" /\ ~InTrace("click:run"))
        /\ \A j \in DOMAIN trace :
                trace[j] = "click:run" =>
                    /\ cascade.target = "run_button"
                    /\ cascade.found # 0
                    /\ j > 1
                    /\ trace[j - 1] = "is_disabled:False"

\* A run-query call that resolved the control, found it disabled and failed.
C19_Witness ==
    /\ Done("run_query")
    /\ cascade.found # 0
    /\ InTrace("is_disabled:True")
    /\ result.status = "Exception"

\* Event e is one of the reads of the response editor.
IsRead(e) == e \in {"read:selection", "read:input_value", "read:model"}

\* C20, as the specification states it: a read-response-body call that
\* succeeds ran the reads in the order selection, input value, model, stopping
\* after the first that gave something, and returns a non-empty text: what that
\* read gave, or the no-content string when all three gave nothing.  The code
\* does not keep this: it tests the text before stripping it, so a read that
\* gives blanks only stops the reads and the call returns the empty string.
C20_FirstNonEmptyWins ==
    (Done("get_response_body") /\ result.status = "ok") =>
        LET reads == SelectSeq(trace, IsRead)
        IN  /\ reads \in {<<"read:selection">>,
                          <<"read:selection", "read:input_value">>,
                          <<"read:selection", "read:input_value", "read:model">>}
            /\ result.text # <<"">>
            /\ result.text = <<NoContent>> => Len(reads) = 3

\* C21, as the specification states it: a read-response-status call that
\* found the status bar and got no text from it (None or the empty string)
\* returns the explicit no-content string and does not fail.  The code does
\* not keep this: `if not status_content` raises, and the tool fails.
C21_EmptyStatusIsNoContent ==
    (/\ Done("get_response_status")
     /\ InTrace("status_bar:found")
     /\ InTrace("text_content:None") \/ InTrace("text_content:empty")) =>
        /\ result.status = "ok"
        /\ result.text # <<"">>

\* C22: a screenshot call given an element selector together with
\* full_page = TRUE captures the element only: no page-level capture (full page
\* or viewport) is taken, and a call that succeeds has captured the element.
C22_ElementIgnoresFullPage ==
    (Done("screenshot") /\ Truthy(arg.element_selector) /\ arg.full_page) =>
        /\ ~InTrace("capture:full_page")
        /\ ~InTrace("capture:viewport")
        /\ result.status = "ok" => InTrace("capture:element")

\* A screenshot of an element asked for with full_page = TRUE was saved.
C22_Witness ==
    /\ Done("screenshot")
    /\ Truthy(arg.element_selector)
    /\ arg.full_page
    /\ result.status = "ok"
    /\ trace = <<"capture:element", "write">>

\* C23: a navigate call whose page load went through (goto and
\* bring_to_front) and whose sidebar step failed, by the wait timing out or by
\* the click raising, reports success.
C23_SidebarBestEffort ==
    (/\ Done("navigate")
     /\ InTrace("bring_to_front")
     /\ InTrace("sidebar:timeout") \/ InTrace("sidebar:click_failed")) =>
        result.status = "ok"

\* A navigate call that succeeded although the click on the control raised.
C23_Witness ==
    /\ Done("navigate")
    /\ trace = <<"goto", "bring_to_front", "sidebar:click_failed">>
    /\ result.status = "ok"

\* Mapping H has a key that is not a non-blank string or a value that is not a
\* string.
Malformed(H) ==
    \E i \in DOMAIN H : H[i][1] \in BlankKeys \/ H[i][2] \in NonStrings

\* C24: a set-headers call whose mapping has a key that is not a non-blank
\* string or a value that is not a string ends at once with a ValueError, with
\* the rows of the page, the session and the browser side as they were and no
\* call made on the page; one bad pair rejects the whole mapping.
C24_InvalidHeadersTouchNothing ==
    [][(pc = "idle" /\ op' = "set_headers" /\ Malformed(arg')) =>
           /\ pc' = "done"
           /\ result'.status = "ValueError"
           /\ headerRows' = headerRows
           /\ self' = self
           /\ net' = net
           /\ ~touched'
           /\ trace' = <<>>]_vars

\* A mapping with a good pair and a bad one was rejected while the page showed
\* a row.
C24_Witness ==
    /\ Done("set_headers")
    /\ arg = <<Authorization, <<"", "x">>>>
    /\ headerRows # <<>>
    /\ result.status = "ValueError"
    /\ NoBrowserUse

\* C25: in a set-headers call, every remove button found when the clearing
\* began was clicked once, in the order found: the clicks recorded are as many
\* as the buttons found, whatever clicks among them raised.
C25_EveryRemoveClicked ==
    op = "set_headers" =>
        /\ Len(loc.removes) = loc.remove_buttons
        /\ Cardinality({i \in DOMAIN trace : trace[i] = "click:remove"})
              = loc.remove_buttons

\* Two buttons were found, the first click raised and the second was made.
C25_Witness ==
    /\ op = "set_headers"
    /\ loc.remove_buttons = 2
    /\ loc.removes = <<"raise", "ok">>

\* The steps of _add_single_header.
AddSteps == {"sh_container", "sh_key", "sh_value", "sh_button", "sh_fill"}

\* C26: in a set-headers call the pairs of the mapping are attempted once each
\* in mapping order, a failed addition is followed by the attempt for the next
\* pair, and the clearing is over before the first addition starts: while the
\* clearing is pending nothing was attempted; during the additions the pairs
\* attempted so far and the pairs still to come make up the mapping, in order;
\* a call that got to the additions ends with one attempt per pair; and no
\* remove click follows an add click.
C26_EveryPairAttempted ==
    op = "set_headers" =>
        /\ pc = "sh_clear" => loc.attempts = <<>> /\ loc.headers = arg
        /\ pc \in AddSteps =>
              /\ loc.headers # <<>>
              /\ loc.headers = SubSeq(arg, Len(loc.attempts) + 1, Len(arg))
        /\ (pc = "done" /\ InTrace("click:headers_tab") /\ arg # <<>>) =>
              /\ loc.headers = <<>>
              /\ Len(loc.attempts) = Len(arg)
        /\ \A i, j \in DOMAIN trace :
              (trace[i] = "click:add" /\ trace[j] = "click:remove") => j < i

\* The first addition failed and the second pair was still attempted and added.
C26_Witness ==
    /\ Done("set_headers")
    /\ loc.attempts = <<"failed", "added">>
    /\ Len(arg) = 2

\* C27, as the specification states it: the number of headers a successful
\* set-headers call reports equals the number of rows the call added to the
\* page; a pair whose Add button was still disabled after the focus/blur nudge
\* is not counted.  The code does not keep this: the button is clicked with
\* force whatever is_disabled returned, and every _add_single_header call that
\* returns is counted.
C27_CountIsRowsAdded ==
    (Done("set_headers") /\ result.status = "ok") =>
        result.n = Cardinality({i \in DOMAIN loc.attempts : loc.attempts[i] = "added"})

\* The Monaco script of this set-request-body call ran to its end.
NativeRan == Done("set_request_body") /\ (InTrace("native:true") \/ InTrace("native:false"))

\* C28, as the specification states it: the editor inside the request area is
\* chosen when there is one; when there is none and at least one editor
\* exists, the last editor is chosen and set.
C28_LastEditorWheneverAny ==
    NativeRan =>
        /\ loc.contained # 0 => loc.chosen = loc.contained
        /\ (loc.contained = 0 /\ loc.editors >= 1) =>
              (loc.chosen = loc.editors /\ InTrace("native:true"))

\* C28, amended: the editor inside the request area is chosen when there is
\* one; when there is none, the last editor is chosen and set if there is more
\* than one editor, and with one editor or none the script sets nothing and
\* returns false.
C28_LastEditorWhenSeveral ==
    NativeRan =>
        /\ loc.contained # 0 => (loc.chosen = loc.contained /\ InTrace("native:true"))
        /\ (loc.contained = 0 /\ loc.editors > 1) =>
              (loc.chosen = loc.editors /\ InTrace("native:true"))
        /\ (loc.contained = 0 /\ loc.editors <= 1) =>
              (loc.chosen = 0 /\ InTrace("native:false"))

\* Two editors, neither inside the request area: the second was set.
C28_Witness ==
    /\ NativeRan
    /\ loc.editors = 2
    /\ loc.contained = 0
    /\ loc.chosen = 2
    /\ InTrace("native:true")

C30_BrowserImpliesPage ==
    /\ self.browser # 0 => (self.context # 0 /\ self.page # 0)
    /\ result.kind # "no_page"

\* C31, as the specification states it: a run-query call reports success only
\* when the spinner was never seen after the click or was seen and then hid; a
\* spinner still visible when the wait for it to hide expires is not a
\* success.  The code does not keep this: the wait is inside a try whose bare
\* except passes, so the timeout is dropped and the call reports success.
C31_SpinnerStillVisibleFails ==
    (Done("run_query") /\ InTrace("seen_still_visible")) => result.status # "ok"

\* C32, as the specification states it: when two operations are invoked
\* concurrently before any session exists and both come to use a page, one
\* connection was made, one page was created and both used that page.  The
\* code does not keep this: ensure_browser tests self.browser and assigns it
\* two awaits later without a lock, so the second task passes the test while
\* the first is still starting, and each connects and opens a page of its own.
C32_OneSessionShared ==
    (\A t \in Tasks : tasks[t].pc = "done") =>
        /\ net.connects = 1
        /\ net.pages = 1
        /\ \A t \in Tasks : tasks[t].page = self.page /\ tasks[t].page # 0

\* The runtimes started and not stopped.
RunningRuntimes ==
    {i \in 1..net.starts :
        \A k \in DOMAIN released : released[k] # <<"playwright.stop", i>>}

\* C33, as the specification states it: at no time is more than one runtime
\* started and not stopped; a call whose connection attempt failed leaves no
\* started runtime behind; after a cleanup that returned no started runtime
\* is left.  The code does not keep this: a failed connect_over_cdp leaves the
\* runtime it started running and stored in self.playwright, the next call
\* starts another and overwrites the handle, and cleanup stops only the one
\* self.playwright holds.
C33_OneRuntimeAtMost ==
    /\ Cardinality(RunningRuntimes) <= 1
    /\ (pc = "done" /\ ensured = "connect_failed") => RunningRuntimes = {}
    /\ (pc = "stopped" /\ result.status = "ok") => RunningRuntimes = {}

\* C34, as the specification states it: after a cleanup that returned the
\* session is disconnected (no handle stored); no handle is released twice;
\* and a call that used the page used one whose context had not been closed.
\* The code does not keep this: cleanup assigns no field, so the handles stay,
\* a second cleanup closes them again, and ensure_browser finds self.browser
\* set and hands the closed page to the next call.
C34_CleanupDisconnects ==
    /\ (pc = "stopped" /\ result.status = "ok") => self = NewSelf
    /\ \A i, j \in DOMAIN released : released[i] = released[j] => i = j
    /\ (pc = "done" /\ touched) =>
          \A k \in DOMAIN released : released[k] # <<"context.close", self.context>>

\* C35: a set-url call whose URL does not start with
\* "https://graph.microsoft.com/" ends in a ValueError with no session
\* established, no call on the page made and no selector of the script
\* evaluated; a set-url call that reports success evaluated the URL-input
\* selectors in order, textarea first, and the last one evaluated matched.
C35_UrlCheckedThenInputFound ==
    /\ (Done("set_url") /\ ~startswith(arg, GraphPrefix)) =>
           /\ result = Raise("ValueError", "invalid_url")
           /\ NoBrowserUse
           /\ cascade = NoCascade
    /\ (Done("set_url") /\ result.status = "ok") =>
           /\ cascade.target = "url_input"
           /\ cascade.found \in 1..UrlInputCandidates
           /\ Len(cascade.tried) = cascade.found
           /\ \A j \in DOMAIN cascade.tried :
                 cascade.tried[j] =
                    <<j, IF j = cascade.found THEN "match" ELSE "none">>

\* A URL on another host whose name begins with graph.microsoft.com is
\* rejected by a server that has never connected.
C35_Witness ==
    /\ Done("set_url")
    /\ arg = <<"https://", "graph.microsoft.com", ".example.org", "/">>
    /\ result.status = "ValueError"
    /\ self = NewSelf
    /\ net.starts = 0

====
